---- MODULE Spec2Model ----
(***************************************************************************)
(* Model of appBLOG_1.py: a Streamlit page that is executed top to bottom  *)
(* on every render.  The script reads four sliders, assigns module globals *)
(* and calls a Monte Carlo estimator four times (run_analysis for Figures  *)
(* 1 and 2, calculate_data twice for Figure 3).                            *)
(*                                                                         *)
(* Units.  All quantities are exact integers:                              *)
(*   cov        hundredths           (slider 0.15  -> 15)                  *)
(*   Ns         thousandths          (0.181        -> 181)                 *)
(*   strengths  thousandths of kPa   (70 kPa       -> 70000)               *)
(* so Ns*gamma*H is a capacity in thousandths of kPa.  Quotients (safety   *)
(* factors, means, pf) are kept as exact fractions [num, den].             *)
(*                                                                         *)
(* Randomness.  beta.rvs is a nondeterministic choice of a sample vector   *)
(* over representative points of the support [loc, loc + scale].           *)
(***************************************************************************)
EXTENDS Integers, Sequences, FiniteSets, TLC

VARIABLES
    pc,       \* position of the script: the line about to execute
    widget,   \* slider positions held by the Streamlit session
    G,        \* the script's namespace: bound global names -> values
    calls,    \* history: one record per estimator invocation of this render
    dirty     \* history: names assigned since the last estimator invocation

vars == <<pc, widget, G, calls, dirty>>

\* Number of draws per estimator call (the script's SAMPLES = 10000, scaled).
MaxSamples == 2

----------------------------------------------------------------------------
\* Exact fractions.

Frac(n, d) == [num |-> n, den |-> d]

\* q < k for a fraction q and an integer k
FracLtInt(q, k) ==
    IF q.den > 0 THEN q.num < k * q.den ELSE q.num > k * q.den

FracLeqInt(q, k) ==
    IF q.den > 0 THEN q.num <= k * q.den ELSE q.num >= k * q.den

\* p <= q for fractions with positive denominators
FracLeq(p, q) == p.num * q.den <= q.num * p.den

FracLt(p, q) == p.num * q.den < q.num * p.den

RECURSIVE SumSeq(_)
SumSeq(s) == IF s = <<>> THEN 0 ELSE Head(s) + SumSeq(Tail(s))

\* np.mean of a vector of integers
Mean(s) == Frac(SumSeq(s), Len(s))

----------------------------------------------------------------------------
\* The namespace.

Bound(name) == name \in DOMAIN G

Bind(ns, name, val) ==
    [n \in DOMAIN ns \cup {name} |-> IF n = name THEN val ELSE ns[n]]

RECURSIVE BindAll(_, _)
BindAll(ns, pairs) ==
    IF pairs = <<>> THEN ns
    ELSE BindAll(Bind(ns, Head(pairs)[1], Head(pairs)[2]), Tail(pairs))

RECURSIVE Names(_)
Names(pairs) ==
    IF pairs = <<>> THEN {} ELSE {Head(pairs)[1]} \cup Names(Tail(pairs))

Empty == [n \in {} |-> 0]

----------------------------------------------------------------------------
\* The estimator's pieces (run_analysis, lines 116-145 and again 270-299;
\* calculate_data, lines 456-464).

\* (mutation: the slope height left out of the divisor)
Capacity_NoH(Ns, gamma, H) == Ns * gamma

\* Ns * gamma * H, the divisor of lines 129, 283 and 461
Capacity(Ns, gamma, H) == Ns * gamma * H

\* Representative points of the support of loc + scale * Beta(a, b): its two
\* ends and, when it lies strictly inside, the value `mark` against which the
\* caller goes on to compare the draws (its capacity, where fs is exactly 1).
RvsPoints(loc, scale, mark) ==
    {loc, loc + scale} \cup {x \in {mark} : loc < x /\ x < loc + scale}

\* scipy's argument check of rv_continuous.rvs: shapes > 0 and scale >= 0,
\* else ValueError("Domain error in arguments.")
RvsDomainError(a, b, scale) == a <= 0 \/ b <= 0 \/ scale < 0

\* beta.rvs(a, b, loc=loc, scale=scale, size=size): the possible sample vectors
BetaRvs(a, b, loc, scale, size, mark) == [1..size -> RvsPoints(loc, scale, mark)]

\* (mutation: the quotient upside down)
SafetyFactors_Inverted(samples, cap) ==
    [i \in DOMAIN samples |-> Frac(cap, samples[i])]

\* fs = samples / (Ns * gamma * H), element by element
SafetyFactors(samples, cap) == [i \in DOMAIN samples |-> Frac(samples[i], cap)]

\* (mutation: a sample at exactly 1.0 counted as a failure)
IsFailure_Leq(fs) == FracLeqInt(fs, 1)

\* (mutation: the comparison the wrong way round)
IsFailure_Gt(fs) == ~FracLeqInt(fs, 1)

\* the test fs < 1.0 of np.sum(fs < 1.0)
IsFailure(fs) == FracLtInt(fs, 1)

\* pf = np.sum(fs < 1.0) / SAMPLES
Pf(fs, size) == Frac(Cardinality({i \in DOMAIN fs : IsFailure(fs[i])}), size)

\* np.mean(fs) for safety factors sharing the divisor cap
MeanFs(samples, cap) == Frac(SumSeq(samples), cap * Len(samples))

\* (mutation: the upper bound a whole width above the mean, the mode off centre)
Support_HighFull(mean, cov) ==
    LET std   == 10 * cov * mean
        width == std * 6
    IN  [width |-> width,
         low   |-> 1000 * mean - width \div 2,
         high  |-> 1000 * mean + width]

\* (mutation: the bounds a whole width from the mean, the "/2" forgotten)
Support_NoHalf(mean, cov) ==
    LET std   == 10 * cov * mean
        width == std * 6
    IN  [width |-> width,
         low   |-> 1000 * mean - width,
         high  |-> 1000 * mean + width]

\* std = cov * mean; w = std * 6; low, high = mean - w/2, mean + w/2
Support(mean, cov) ==
    LET std   == 10 * cov * mean
        width == std * 6
    IN  [width |-> width,
         low   |-> 1000 * mean - width \div 2,
         high  |-> 1000 * mean + width \div 2]

\* run_analysis(cov), reading SU_MEAN, SAMPLES, Ns, gamma, H from namespace ns.
\* The density curves (lines 133-142) feed the plots only and are left out.
\* An outcome is the exception raised or the tuple returned, with the locals
\* (alpha and beta_param 0 while unassigned) as they stood at that point.
run_analysis(cov, ns) ==
    LET sup     == Support(ns.SU_MEAN, cov)
        low_su  == sup.low
        high_su == sup.high
        mode_su == 1000 * ns.SU_MEAN
        cap     == Capacity(ns.Ns, ns.gamma, ns.H)
        at(a, b) == [alpha |-> a, beta_param |-> b, low |-> low_su,
                     high |-> high_su, width |-> sup.width]
    IN  IF high_su - low_su = 0
        THEN {[err |-> "ZeroDivisionError", locals |-> at(0, 0)]}
        ELSE
        LET alpha      == 1 + (4 * (mode_su - low_su)) \div (high_su - low_su)
            beta_param == 1 + (4 * (high_su - mode_su)) \div (high_su - low_su)
        IN  IF RvsDomainError(alpha, beta_param, sup.width)
            THEN {[err |-> "ValueError", locals |-> at(alpha, beta_param)]}
            ELSE
            {[err |-> "none", locals |-> at(alpha, beta_param),
              su_samples |-> su,
              m_su       |-> Mean(su),
              fs_samples |-> SafetyFactors(su, cap),
              m_fs       |-> MeanFs(su, cap),
              pf         |-> Pf(SafetyFactors(su, cap), ns.SAMPLES),
              low_su     |-> low_su,
              high_su    |-> high_su]
             : su \in BetaRvs(alpha, beta_param, low_su, sup.width, ns.SAMPLES, cap)}

\* calculate_data(mean, cov, Ns, H, gamma, SAMPLES)
calculate_data(mean, cov, Ns, H, gamma, SAMPLES) ==
    LET sup == Support(mean, cov)
        cap == Capacity(Ns, gamma, H)
        at  == [alpha |-> 4, beta_param |-> 4, low |-> sup.low,
                high |-> sup.high, width |-> sup.width]
    IN  IF RvsDomainError(4, 4, sup.width)
        THEN {[err |-> "ValueError", locals |-> at]}
        ELSE
        {[err |-> "none", locals |-> at,
          samples |-> s,
          fs      |-> SafetyFactors(s, cap),
          pf      |-> Pf(SafetyFactors(s, cap), SAMPLES),
          mean_fs |-> MeanFs(s, cap),
          low     |-> sup.low,
          high    |-> sup.high,
          w       |-> sup.width]
         : s \in BetaRvs(4, 4, sup.low, sup.width, SAMPLES, cap)}

----------------------------------------------------------------------------
\* The sliders.  st.slider(label, min, max, value[, step]) returns the
\* session's position, which the widget keeps on min, min + 0.01, ..., max.

\* Slider positions the model tries (hundredths)
CovStops == {5, 6, 7, 8, 9, 10, 11, 12, 13, 30}

\* (mutation: the slider's lower end at 0)
SliderValues_FromZero(lo, hi, default) ==
    {v \in 0..hi : v \in CovStops \cup {0}} \cup {default}

SliderValues(lo, hi, default) == {v \in lo..hi : v \in CovStops} \cup {default}

\* line 105: st.slider('Selecciona el *$CoV$*', 0.05, 0.30, 0.15)
Fig1Slider == SliderValues(5, 30, 15)
\* line 259: st.slider('Selecciona el CoV', 0.1, 0.30, 0.15)
Fig2Slider == SliderValues(10, 30, 15)
\* line 450: st.slider('$CoV$ Escenario 1', 0.1, 0.3, 0.20, 0.01)
Esc1Slider == SliderValues(10, 30, 20)
\* line 453: st.slider('$CoV$ Escenario 2:', 0.1, 0.3, 0.10, 0.01)
Esc2Slider == SliderValues(10, 30, 10)

Defaults == [fig1 |-> 15, fig2 |-> 15, esc1 |-> 20, esc2 |-> 10]

\* the positions of each slider
Sliders == [fig1 |-> Fig1Slider, fig2 |-> Fig2Slider,
            esc1 |-> Esc1Slider, esc2 |-> Esc2Slider]

\* Sessions the model tries: the page as loaded, with at most one slider moved
SessionStates ==
    {Defaults} \cup
    UNION {{[Defaults EXCEPT ![k] = v] : v \in Sliders[k]} : k \in DOMAIN Sliders}

----------------------------------------------------------------------------
\* The script, top to bottom.

\* an assignment statement: bind the names, remember they were written
Assign(pairs) ==
    /\ G' = BindAll(G, pairs)
    /\ dirty' = dirty \cup Names(pairs)

\* globals that the body of run_analysis reads (lines 117, 126, 129, 130)
RunAnalysisReads == {"SU_MEAN", "SAMPLES", "Ns", "gamma", "H"}

\* calculate_data reads its parameters only
CalculateDataReads == {}

\* names a read of which is stale: written since the previous invocation
Stale(reads) == IF calls = <<>> THEN {} ELSE reads \cap dirty

CallRecord(fn, site, mean, cov, Ns, H, gamma, SAMPLES, reads, o) ==
    [fn |-> fn, site |-> site, mean |-> mean, cov |-> cov, Ns |-> Ns, H |-> H,
     gamma |-> gamma, SAMPLES |-> SAMPLES, reads |-> reads,
     stale |-> Stale(reads), err |-> o.err, locals |-> o.locals]

\* the 13-name tuple assignment of lines 148 and 302 (curves left out)
RunAnalysisResult(o) ==
    << <<"su_samples", o.su_samples>>, <<"m_su", o.m_su>>,
       <<"fs_samples", o.fs_samples>>, <<"m_fs", o.m_fs>>, <<"pf", o.pf>>,
       <<"low_su", o.low_su>>, <<"high_su", o.high_su>> >>

\* s1, fs1, pf1, m_fs1, l1, h1, w1 = ...  (k = "1", line 467; k = "2", line 468)
CalculateDataResult(k, o) ==
    << <<"s" \o k, o.samples>>, <<"fs" \o k, o.fs>>, <<"pf" \o k, o.pf>>,
       <<"m_fs" \o k, o.mean_fs>>, <<"l" \o k, o.low>>, <<"h" \o k, o.high>>,
       <<"w" \o k, o.w>> >>

\* an uncaught exception ends the run of the script
Finish(o, result, next) ==
    IF o.err = "none"
    THEN /\ G' = BindAll(G, result)
         /\ dirty' = Names(result)
         /\ pc' = next
    ELSE /\ G' = G
         /\ dirty' = dirty
         /\ pc' = "raised"

\* line 105
Slider1 ==
    /\ pc = "L105"
    /\ Assign(<< <<"cov", widget.fig1>> >>)
    /\ pc' = "L110"
    /\ UNCHANGED <<widget, calls>>

\* lines 110-114
Globals1 ==
    /\ pc = "L110"
    /\ Assign(<< <<"H", 15>>, <<"gamma", 19>>, <<"Ns", 181>>,
                 <<"SU_MEAN", 70>>, <<"SAMPLES", MaxSamples>> >>)
    /\ pc' = "L116"
    /\ UNCHANGED <<widget, calls>>

\* line 116: def run_analysis
Def1 ==
    /\ pc = "L116"
    /\ Assign(<< <<"run_analysis", 116>> >>)
    /\ pc' = "L148"
    /\ UNCHANGED <<widget, calls>>

\* ... = run_analysis(cov) at line `site`
CallRunAnalysis(site, next) ==
    /\ pc = site
    /\ \E o \in run_analysis(G.cov, G) :
        /\ calls' = Append(calls,
              CallRecord("run_analysis", site, G.SU_MEAN, G.cov, G.Ns, G.H,
                         G.gamma, G.SAMPLES, RunAnalysisReads, o))
        /\ Finish(o, IF o.err = "none" THEN RunAnalysisResult(o) ELSE <<>>, next)
    /\ UNCHANGED widget

\* line 148
Call1 == CallRunAnalysis("L148", "L259")

\* line 259
Slider2 ==
    /\ pc = "L259"
    /\ Assign(<< <<"cov", widget.fig2>> >>)
    /\ pc' = "L264"
    /\ UNCHANGED <<widget, calls>>

\* (mutation: the height of Figure 3 assigned already for Figure 2)
Globals2_H12 ==
    /\ pc = "L264"
    /\ Assign(<< <<"H", 12>>, <<"gamma", 19>>, <<"Ns", 181>>,
                 <<"SU_MEAN", 70>>, <<"SAMPLES", MaxSamples>> >>)
    /\ pc' = "L270"
    /\ UNCHANGED <<widget, calls>>

\* (mutation: another mean strength assigned for Figure 2)
Globals2_Mean65 ==
    /\ pc = "L264"
    /\ Assign(<< <<"H", 15>>, <<"gamma", 19>>, <<"Ns", 181>>,
                 <<"SU_MEAN", 65>>, <<"SAMPLES", MaxSamples>> >>)
    /\ pc' = "L270"
    /\ UNCHANGED <<widget, calls>>

\* lines 264-268
Globals2 ==
    /\ pc = "L264"
    /\ Assign(<< <<"H", 15>>, <<"gamma", 19>>, <<"Ns", 181>>,
                 <<"SU_MEAN", 70>>, <<"SAMPLES", MaxSamples>> >>)
    /\ pc' = "L270"
    /\ UNCHANGED <<widget, calls>>

\* line 270: def run_analysis, again
Def2 ==
    /\ pc = "L270"
    /\ Assign(<< <<"run_analysis", 270>> >>)
    /\ pc' = "L302"
    /\ UNCHANGED <<widget, calls>>

\* line 302
Call2 == CallRunAnalysis("L302", "L374")

\* line 374 (the slope drawing's H; its other names feed the drawing only)
Geometry ==
    /\ pc = "L374"
    /\ Assign(<< <<"H", 12>> >>)
    /\ pc' = "L440"
    /\ UNCHANGED <<widget, calls>>

\* (mutation: the height of Figures 1 and 2 assigned for Figure 3)
Globals3_H15 ==
    /\ pc = "L440"
    /\ Assign(<< <<"H", 15>>, <<"gamma", 19>>, <<"Ns1", 181>>,
                 <<"Ns2", 181>>, <<"SAMPLES", MaxSamples>> >>)
    /\ pc' = "L450"
    /\ UNCHANGED <<widget, calls>>

\* lines 440-444
Globals3 ==
    /\ pc = "L440"
    /\ Assign(<< <<"H", 12>>, <<"gamma", 19>>, <<"Ns1", 181>>,
                 <<"Ns2", 181>>, <<"SAMPLES", MaxSamples>> >>)
    /\ pc' = "L450"
    /\ UNCHANGED <<widget, calls>>

\* lines 450 and 453
Sliders3 ==
    /\ pc = "L450"
    /\ Assign(<< <<"cov1", widget.esc1>>, <<"cov2", widget.esc2>> >>)
    /\ pc' = "L456"
    /\ UNCHANGED <<widget, calls>>

\* line 456: def calculate_data
Def3 ==
    /\ pc = "L456"
    /\ Assign(<< <<"calculate_data", 456>> >>)
    /\ pc' = "L467"
    /\ UNCHANGED <<widget, calls>>

\* ... = calculate_data(mean, cov, Ns, H, gamma, SAMPLES) at line `site`
CallCalculateData(site, next, k, mean, cov, Ns) ==
    /\ pc = site
    /\ \E o \in calculate_data(mean, cov, Ns, G.H, G.gamma, G.SAMPLES) :
        /\ calls' = Append(calls,
              CallRecord("calculate_data", site, mean, cov, Ns, G.H, G.gamma,
                         G.SAMPLES, CalculateDataReads, o))
        /\ Finish(o, IF o.err = "none" THEN CalculateDataResult(k, o) ELSE <<>>,
                  next)
    /\ UNCHANGED widget

\* line 467
Call3 == CallCalculateData("L467", "L468", "1", 65, G.cov1, G.Ns1)

\* (mutation: the first scenario's slider passed to the second call)
Call4_Cov1 == CallCalculateData("L468", "done", "2", 55, G.cov1, G.Ns2)

\* line 468
Call4 == CallCalculateData("L468", "done", "2", 55, G.cov2, G.Ns2)

\* (mutation: the invocations of the previous render still counted)
Rerun_KeepCalls ==
    /\ pc \in {"done", "raised"}
    /\ \E k \in DOMAIN Sliders : \E v \in Sliders[k] \ {widget[k]} :
        /\ [widget EXCEPT ![k] = v] \in SessionStates
        /\ widget' = [widget EXCEPT ![k] = v]
    /\ pc' = "L105"
    /\ G' = Empty
    /\ calls' = calls
    /\ dirty' = {}

\* Moving a slider executes the script again from the top, in a fresh
\* namespace (the page has been rendered, or has stopped on an exception).
Rerun ==
    /\ pc \in {"done", "raised"}
    /\ \E k \in DOMAIN Sliders : \E v \in Sliders[k] \ {widget[k]} :
        /\ [widget EXCEPT ![k] = v] \in SessionStates
        /\ widget' = [widget EXCEPT ![k] = v]
    /\ pc' = "L105"
    /\ G' = Empty
    /\ calls' = <<>>
    /\ dirty' = {}

Init ==
    /\ pc = "L105"
    /\ widget \in SessionStates
    /\ G = Empty
    /\ calls = <<>>
    /\ dirty = {}

Next ==
    \/ Slider1 \/ Globals1 \/ Def1 \/ Call1
    \/ Slider2 \/ Globals2 \/ Def2 \/ Call2
    \/ Geometry \/ Globals3 \/ Sliders3 \/ Def3 \/ Call3 \/ Call4
    \/ Rerun

Spec == Init /\ [][Next]_vars

----------------------------------------------------------------------------
\* The estimators as functions of their inputs: up to two invocations of one
\* estimator at one mean, with any coefficient of variation, the namespace
\* being as lines 110-114 leave it and the geometry of Figure 3 as lines
\* 440-443 and 467-468 pass it.

\* coefficients of variation tried (hundredths), valid and not
CovInputs == {-10, 0, 5, 10, 15, 20, 30, 33, 35, 99}

\* mean strengths tried for calculate_data (kPa): below and above capacity
MeanInputs == {40, 55, 65}

Slot == IF calls = <<>> THEN "first" ELSE "second"

EstRunAnalysis ==
    /\ pc = "contract"
    /\ Len(calls) < 2
    /\ calls # <<>> => calls[1].fn = "run_analysis"
    /\ \E c \in CovInputs : \E o \in run_analysis(c, G) :
        /\ calls' = Append(calls,
              CallRecord("run_analysis", Slot, G.SU_MEAN, c, G.Ns, G.H,
                         G.gamma, G.SAMPLES, RunAnalysisReads, o))
        /\ G' = Bind(G, Slot, o)
    /\ UNCHANGED <<pc, widget, dirty>>

EstCalculateData ==
    /\ pc = "contract"
    /\ Len(calls) < 2
    /\ calls # <<>> => calls[1].fn = "calculate_data"
    /\ \E m \in MeanInputs : \E c \in CovInputs :
        /\ calls # <<>> => m = calls[1].mean
        /\ \E o \in calculate_data(m, c, 181, 12, 19, G.SAMPLES) :
            /\ calls' = Append(calls,
                  CallRecord("calculate_data", Slot, m, c, 181, 12, 19,
                             G.SAMPLES, CalculateDataReads, o))
            /\ G' = Bind(G, Slot, o)
    /\ UNCHANGED <<pc, widget, dirty>>

InitEst ==
    /\ pc = "contract"
    /\ widget = Defaults
    /\ G = BindAll(Empty, << <<"H", 15>>, <<"gamma", 19>>, <<"Ns", 181>>,
                            <<"SU_MEAN", 70>>, <<"SAMPLES", MaxSamples>> >>)
    /\ calls = <<>>
    /\ dirty = {}

NextEst == EstRunAnalysis \/ EstCalculateData

SpecEst == InitEst /\ [][NextEst]_vars

----------------------------------------------------------------------------
\* Properties.

\* the capacity an invocation divided by, from the values it was given
CapOf(c) == c.Ns * c.gamma * c.H

\* the share of the support [low, low + w] that lies below cap
FailShare(low, w, cap) ==
    Frac(IF cap <= low THEN 0 ELSE IF cap >= low + w THEN w ELSE cap - low, w)

\* the page rendered with the sliders of Figure 3 at 0.20 and 0.10
Fig3AtDefaults == pc = "done" /\ G.cov1 = 20 /\ G.cov2 = 10

PfIsStrictShare(pf, fs, n) ==
    /\ Len(fs) = n
    /\ pf.den = n
    /\ pf.num = Cardinality({i \in 1..Len(fs) : fs[i].num < fs[i].den})
    /\ 0 <= pf.num /\ pf.num <= pf.den

\* C2: every pf an estimator returned is the count of safety factors strictly
\* below 1.0 over the sample count (a safety factor of exactly 1.0 is not a
\* failure), and lies in [0, 1].
C2_PfCountsStrictFailures ==
    /\ Bound("pf")  => PfIsStrictShare(G.pf, G.fs_samples, G.SAMPLES)
    /\ Bound("pf1") => PfIsStrictShare(G.pf1, G.fs1, G.SAMPLES)
    /\ Bound("pf2") => PfIsStrictShare(G.pf2, G.fs2, G.SAMPLES)

\* a sample vector with a safety factor of exactly 1 and one below 1
HasOneAtOne(pf, fs) ==
    /\ \E i \in 1..Len(fs) : fs[i].num = fs[i].den
    /\ \E i \in 1..Len(fs) : fs[i].num < fs[i].den
    /\ pf.num = 1

\* C2, reached: all three results hold a safety factor of exactly 1.0
C2_Witness ==
    /\ pc = "done"
    /\ HasOneAtOne(G.pf, G.fs_samples)
    /\ HasOneAtOne(G.pf1, G.fs1)
    /\ HasOneAtOne(G.pf2, G.fs2)

----------------------------------------------------------------------------
\* Properties of the estimators as functions (SpecEst).

\* the k-th invocation's outcome, and its parts under either estimator's names
Out(k) == IF k = 1 THEN G.first ELSE G.second
Ok(k) == k <= Len(calls) /\ calls[k].err = "none"
IsRun(k) == calls[k].fn = "run_analysis"
OutSamples(k) == IF IsRun(k) THEN Out(k).su_samples ELSE Out(k).samples
OutFs(k) == IF IsRun(k) THEN Out(k).fs_samples ELSE Out(k).fs
OutLow(k) == IF IsRun(k) THEN Out(k).low_su ELSE Out(k).low
OutHigh(k) == IF IsRun(k) THEN Out(k).high_su ELSE Out(k).high
OutWidth(k) == calls[k].locals.width

\* the part of the k-th support below the capacity, in thousandths of kPa
FailWidth(k) == FailShare(OutLow(k), OutWidth(k), CapOf(calls[k])).num

\* two invocations at one mean above capacity, the second no less uncertain
WiderSecond ==
    /\ Ok(1) /\ Ok(2)
    /\ calls[1].fn = calls[2].fn /\ calls[1].mean = calls[2].mean
    /\ CapOf(calls[1]) = CapOf(calls[2])
    /\ 1000 * calls[1].mean > CapOf(calls[1])
    /\ 0 < calls[1].cov /\ calls[1].cov <= calls[2].cov

\* C3, as stated: with the mean and the geometry fixed and mean/capacity > 1,
\* pf at cov_a is at most pf at cov_b whenever cov_a <= cov_b.
C3_PfMonotoneInCov == WiderSecond => FracLeq(Out(1).pf, Out(2).pf)

\* C3, amended: with the mean and the geometry fixed, mean/capacity > 1 and
\* 0 < cov_a <= cov_b, the share of the support below capacity at cov_a is at
\* most the share at cov_b (the widths being 6 * cov * mean, the shares compare
\* as FailWidth_a * cov_b <= FailWidth_b * cov_a); and where the share at cov_b
\* is zero both pf are 0.
C3_FailShareMonotoneInCov ==
    WiderSecond =>
        /\ OutWidth(1) = 60 * calls[1].cov * calls[1].mean
        /\ OutWidth(2) = 60 * calls[2].cov * calls[2].mean
        /\ FailWidth(1) * calls[2].cov <= FailWidth(2) * calls[1].cov
        /\ FailWidth(2) = 0 => Out(1).pf.num = 0 /\ Out(2).pf.num = 0

\* C3, reached: a strictly wider second invocation, both supports reaching
\* below capacity, with more failures drawn
C3_Witness ==
    /\ WiderSecond
    /\ calls[1].cov < calls[2].cov
    /\ FailWidth(1) > 0
    /\ Out(1).pf.num < Out(2).pf.num

\* C4: for 0 < cov < 1 every strength sample lies in [lowerBound, upperBound],
\* lowerBound = mean - 3*cov*mean and upperBound = mean + 3*cov*mean, which
\* are the bounds the estimator returns.
C4_SamplesWithinBounds ==
    \A k \in 1..Len(calls) :
        (Ok(k) /\ 0 < calls[k].cov /\ calls[k].cov < 100) =>
            LET lowerBound == 1000 * calls[k].mean - 30 * calls[k].cov * calls[k].mean
                upperBound == 1000 * calls[k].mean + 30 * calls[k].cov * calls[k].mean
            IN  /\ OutLow(k) = lowerBound /\ OutHigh(k) = upperBound
                /\ \A i \in 1..Len(OutSamples(k)) :
                    lowerBound <= OutSamples(k)[i] /\ OutSamples(k)[i] <= upperBound

\* C4, reached: cov = 0.99 with draws at both ends of the support
C4_Witness ==
    /\ Ok(1) /\ calls[1].cov = 99
    /\ \E i \in 1..Len(OutSamples(1)) : OutSamples(1)[i] = OutLow(1)
    /\ \E i \in 1..Len(OutSamples(1)) : OutSamples(1)[i] = OutHigh(1)

\* the safety factors of invocation k: one per sample, sample_i / capacity, > 0
QuotientsPositive(k) ==
    /\ Len(OutFs(k)) = Len(OutSamples(k))
    /\ Len(OutFs(k)) = calls[k].SAMPLES
    /\ \A i \in 1..Len(OutFs(k)) :
        /\ OutFs(k)[i] = Frac(OutSamples(k)[i], CapOf(calls[k]))
        /\ OutFs(k)[i].num > 0 /\ OutFs(k)[i].den > 0

\* C5, as stated: with mean > 0, cov > 0 and capacity > 0 there is one safety
\* factor per sample, the i-th being sample_i / capacity, all of them positive.
C5_SafetyFactorsPositive ==
    \A k \in 1..Len(calls) :
        (Ok(k) /\ calls[k].mean > 0 /\ calls[k].cov > 0 /\ CapOf(calls[k]) > 0)
            => QuotientsPositive(k)

\* C5, amended: the same, for 0 < cov < 1/3 (where lowerBound > 0).
C5_SafetyFactorsPositiveBelowThird ==
    \A k \in 1..Len(calls) :
        (Ok(k) /\ calls[k].mean > 0 /\ calls[k].cov > 0
               /\ 3 * calls[k].cov < 100 /\ CapOf(calls[k]) > 0)
            => QuotientsPositive(k)

\* C5, reached: cov = 0.33 with a draw at the lower bound
C5_Witness ==
    /\ Ok(1) /\ calls[1].cov = 33
    /\ \E i \in 1..Len(OutSamples(1)) : OutSamples(1)[i] = OutLow(1)

\* C7: an invocation with cov <= 0 is either rejected, or returns the point
\* mass at the mean: pf = 0 if mean/capacity > 1 and pf = 1 otherwise; it never
\* ends in a numerical error such as a division by the zero width.
C7_ZeroCovHandled ==
    \A k \in 1..Len(calls) :
        calls[k].cov <= 0 =>
            \/ calls[k].err \in {"InvalidParameter", "ValueError"}
            \/ /\ calls[k].err = "none"
               /\ Out(k).pf = Frac(IF 1000 * calls[k].mean > CapOf(calls[k])
                                   THEN 0 ELSE calls[k].SAMPLES,
                                   calls[k].SAMPLES)

----------------------------------------------------------------------------
\* Properties of the page (Spec), continued.

RECURSIVE Pow(_, _)
Pow(x, n) == IF n = 0 THEN 1 ELSE x * Pow(x, n - 1)

RECURSIVE Choose(_, _)
Choose(n, k) == IF k = 0 \/ k = n THEN 1 ELSE Choose(n - 1, k - 1) + Choose(n - 1, k)

RECURSIVE SumFrom(_, _, _, _)
\* sum over j in lo..hi of Choose(n, j) * p^j * (20 - p)^(n - j)
SumFrom(lo, hi, n, p) ==
    IF lo > hi THEN 0
    ELSE Choose(n, lo) * Pow(p, lo) * Pow(20 - p, n - lo) + SumFrom(lo + 1, hi, n, p)

\* The distribution function of Beta(a, a) at p/20, times 20^(2a-1):
\* the sum over j in a..2a-1 of C(2a-1, j) (p/20)^j (1 - p/20)^(2a-1-j)
BetaCdfTwentieths(a, p) == SumFrom(a, 2 * a - 1, 2 * a - 1, p)

\* Figure 1 computed at the slider's default, cov = 0.15
Fig1AtDefault == pc = "L259" /\ G.cov = 15

\* 1.3565 <= mean / capacity <= 1.3575 for the first invocation
NominalIs1357 ==
    /\ 13565 * CapOf(calls[1]) <= 10000 * 1000 * calls[1].mean
    /\ 10000 * 1000 * calls[1].mean <= 13575 * CapOf(calls[1])

\* C6, as stated: run_analysis at mean 70, cov 0.15, Ns 0.181, gamma 19, H 15
\* has nominal safety factor 70/51.585 = 1.357, a mean safety factor within
\* 1.36 +- 0.05 and pf within [0, 0.05].
C6_Scenario1Ranges ==
    Fig1AtDefault =>
        /\ CapOf(calls[1]) = 51585 /\ calls[1].mean = 70
        /\ NominalIs1357
        /\ 131 * G.m_fs.den <= 100 * G.m_fs.num
        /\ 100 * G.m_fs.num <= 141 * G.m_fs.den
        /\ 0 <= G.pf.num /\ 100 * G.pf.num <= 5 * G.pf.den

\* C6, amended: the nominal safety factor is 70/51.585 = 1.357 and the shape
\* is alpha = beta = 3; every safety factor, and so their mean, lies in
\* [38.5/51.585, 101.5/51.585], an interval centred on the nominal value; pf
\* lies in [0, 1]; and as capacity lies more than 4/20 into the support, the
\* Beta(3,3) mass below it, the probability that a draw fails, exceeds 0.05.
C6_Scenario1Support ==
    Fig1AtDefault =>
        LET c == calls[1]
            n == Len(G.fs_samples)
        IN  /\ CapOf(c) = 51585 /\ c.mean = 70
            /\ NominalIs1357
            /\ c.locals.alpha = 3 /\ c.locals.beta_param = 3
            /\ G.low_su = 38500 /\ G.high_su = 101500
            /\ G.low_su + G.high_su = 2 * 1000 * c.mean
            /\ \A i \in 1..n :
                /\ G.fs_samples[i].den = CapOf(c)
                /\ G.low_su <= G.fs_samples[i].num
                /\ G.fs_samples[i].num <= G.high_su
            /\ G.m_fs.den = n * CapOf(c)
            /\ n * G.low_su <= G.m_fs.num /\ G.m_fs.num <= n * G.high_su
            /\ 0 <= G.pf.num /\ G.pf.num <= G.pf.den
            /\ 20 * (CapOf(c) - G.low_su) >= 4 * c.locals.width
            /\ 100 * BetaCdfTwentieths(c.locals.alpha, 4) > 5 * Pow(20, 5)

\* C6, reached: Figure 1 at cov = 0.15 with a failure among the draws
C6_Witness == Fig1AtDefault /\ G.pf.num > 0 /\ G.pf.num < G.pf.den

\* names assigned from the results of the invocations
ResultNames ==
    {"su_samples", "m_su", "fs_samples", "m_fs", "pf", "low_su", "high_su",
     "s1", "fs1", "pf1", "m_fs1", "l1", "h1", "w1",
     "s2", "fs2", "pf2", "m_fs2", "l2", "h2", "w2"}

\* C8, as stated: no invocation reads a variable written since the previous
\* invocation of the render.
C8_NoStaleRead == \A k \in 1..Len(calls) : calls[k].stale = {}

\* C8, amended: calculate_data reads no variable of the script; run_analysis
\* reads only SU_MEAN, SAMPLES, Ns, gamma and H, none of them assigned from an
\* invocation's result, and although the script assigns them again between
\* the two run_analysis invocations, the second reads the values the first
\* read.
C8_StaleReadsSameValues ==
    \A k \in 1..Len(calls) :
        LET c == calls[k]
        IN  /\ c.fn = "calculate_data" => c.reads = {} /\ c.stale = {}
            /\ c.fn = "run_analysis" =>
                /\ c.reads = {"SU_MEAN", "SAMPLES", "Ns", "gamma", "H"}
                /\ c.stale \cap ResultNames = {}
                /\ k > 1 =>
                    /\ calls[k - 1].fn = "run_analysis"
                    /\ c.mean = calls[k - 1].mean
                    /\ c.SAMPLES = calls[k - 1].SAMPLES
                    /\ c.Ns = calls[k - 1].Ns
                    /\ c.gamma = calls[k - 1].gamma
                    /\ c.H = calls[k - 1].H

\* C8, reached: a whole render, whose second invocation read five names the
\* script had assigned after the first
C8_Witness ==
    /\ pc = "done" /\ Len(calls) = 4
    /\ calls[2].stale = {"SU_MEAN", "SAMPLES", "Ns", "gamma", "H"}

\* the slider an invocation's cov is read from
SliderAt(site) ==
    CASE site = "L148" -> "fig1"
      [] site = "L302" -> "fig2"
      [] site = "L467" -> "esc1"
      [] site = "L468" -> "esc2"

\* C9: every cov passed to an estimator is the position of a slider and lies in
\* [0.05, 0.30], so supportWidth > 0 and lowerBound < mean < upperBound at
\* every invocation.
C9_CovFromSliderInRange ==
    \A k \in 1..Len(calls) :
        LET c == calls[k]
        IN  /\ c.cov = widget[SliderAt(c.site)]
            /\ 5 <= c.cov /\ c.cov <= 30
            /\ c.err = "none"
            /\ c.locals.width > 0
            /\ c.locals.low < 1000 * c.mean
            /\ 1000 * c.mean < c.locals.high

\* C9, reached: a whole render with the first slider at its lower end, 0.05
C9_Witness == pc = "done" /\ Len(calls) = 4 /\ calls[1].cov = 5

\* C10: the run_analysis invocations are the first two of a run, at lines 148
\* and 302, and read H = 15, gamma = 19, Ns = 0.181, SU_MEAN = 70 and the
\* script's SAMPLES; H is 12 only after them; the calculate_data invocations
\* are the third and fourth, with H = 12, gamma = 19, Ns = 0.181 and the means
\* 65 and 55.
C10_GeometryPerInvocation ==
    /\ Len(calls) <= 4
    /\ \A k \in 1..Len(calls) :
        LET c == calls[k]
        IN  /\ c.site = <<"L148", "L302", "L467", "L468">>[k]
            /\ c.fn = IF k <= 2 THEN "run_analysis" ELSE "calculate_data"
            /\ c.H = IF k <= 2 THEN 15 ELSE 12
            /\ c.gamma = 19 /\ c.Ns = 181
            /\ c.mean = <<70, 70, 65, 55>>[k]
            /\ c.SAMPLES = MaxSamples
    /\ (Bound("H") /\ G.H = 12) => (Len(calls) >= 2 /\ pc \notin {"L270", "L302"})

\* C10, reached: a whole render, four invocations made
C10_Witness == pc = "done" /\ Len(calls) = 4 /\ G.H = 12

\* C11: at every invocation with cov > 0 the shape parameters are positive
\* and equal: in run_analysis, whose mode is the mean, alpha =
\* 1 + 4*(mode - low)/(high - low) and beta_param = 1 + 4*(high - mode)/(high -
\* low) are both exactly 3 whatever cov is; in calculate_data both are 4.
C11_ShapesSymmetric ==
    \A k \in 1..Len(calls) :
        LET c == calls[k]
            l == c.locals
        IN  c.cov > 0 =>
            /\ l.alpha > 0 /\ l.beta_param > 0
            /\ l.alpha = l.beta_param
            /\ c.fn = "run_analysis" =>
                /\ l.high - l.low = l.width
                /\ (l.alpha - 1) * l.width = 4 * (1000 * c.mean - l.low)
                /\ (l.beta_param - 1) * l.width = 4 * (l.high - 1000 * c.mean)
                /\ l.alpha = 3
            /\ c.fn = "calculate_data" => l.alpha = 4

\* C11, reached: run_analysis returned at two different positive cov, with
\* the same shape parameters
C11_Witness ==
    /\ Ok(1) /\ Ok(2) /\ IsRun(1)
    /\ 0 < calls[1].cov /\ calls[1].cov < calls[2].cov
    /\ calls[1].locals.alpha = 3 /\ calls[2].locals.beta_param = 3

\* the invocations of the render so far that were made by estimator fn
CallsOf(fn) == {k \in 1..Len(calls) : calls[k].fn = fn}

\* C12, as stated: in every render of the page the estimators are invoked at
\* most three times.
C12_AtMostThreeInvocations == Len(calls) <= 3

\* C12, amended: in every render the estimators are invoked at most four
\* times, each of the call sites at lines 148, 302, 467 and 468 at most once
\* (run_analysis twice, calculate_data twice); a render starts with none made
\* and a render that completes has made all four.
C12_AtMostFourInvocations ==
    /\ Cardinality(CallsOf("run_analysis")) <= 2
    /\ Cardinality(CallsOf("calculate_data")) <= 2
    /\ Len(calls) = Cardinality(CallsOf("run_analysis"))
                    + Cardinality(CallsOf("calculate_data"))
    /\ \A j, k \in 1..Len(calls) : calls[j].site = calls[k].site => j = k
    /\ pc = "L105" => calls = <<>>
    /\ pc = "done" => Len(calls) = 4

\* C12, reached: a render with a slider off its default, in which the fourth
\* invocation, the second of Figure 3, has returned
C12_Witness ==
    /\ pc = "done" /\ widget # Defaults
    /\ Cardinality(CallsOf("run_analysis")) = 2
    /\ Cardinality(CallsOf("calculate_data")) = 2
    /\ calls[4].site = "L468" /\ calls[4].err = "none"

\* the k-th invocation of the render returned and its result is still bound
\* (the second run_analysis result replaces the first)
Live(k) == Ok(k) /\ (k = 1 => Len(calls) = 1)

\* the probability of failure and the strength samples the k-th invocation
\* returned, under the names the script binds them to
PfAt(k) == IF k <= 2 THEN G.pf ELSE IF k = 3 THEN G.pf1 ELSE G.pf2
SamplesAt(k) == IF k <= 2 THEN G.su_samples ELSE IF k = 3 THEN G.s1 ELSE G.s2

\* C13: lowerBound is mean*(1 - 3*cov); whenever it is >= capacity pf is 0
\* whatever the draws; whenever mean > capacity and the draws reach the upper
\* half of the support pf is below 1; so Figure 1 (line 148) shows pf = 0 at
\* every slider position cov <= 0.08 and Scenario 1 of Figure 3 (line 467) at
\* cov1 in {0.10, 0.11, 0.12}, while in Scenario 2 (line 468) the support
\* reaches below capacity at every slider position, so that none forces pf to 0.
C13_PfForcedToZero ==
    \A k \in 1..Len(calls) :
        LET c   == calls[k]
            low == c.locals.low
        IN  Live(k) =>
            /\ low = 1000 * c.mean - 30 * c.cov * c.mean
            /\ low >= CapOf(c) => PfAt(k).num = 0
            /\ ( /\ 1000 * c.mean > CapOf(c)
                 /\ \E i \in DOMAIN SamplesAt(k) :
                        SamplesAt(k)[i] >= 1000 * c.mean )
               => PfAt(k).num < PfAt(k).den
            /\ (c.site = "L148" /\ c.cov <= 8) =>
                   (low >= CapOf(c) /\ PfAt(k).num = 0)
            /\ (c.site = "L467" /\ c.cov \in {10, 11, 12}) =>
                   (low >= CapOf(c) /\ PfAt(k).num = 0)
            /\ c.site = "L468" =>
                   (10 <= c.cov /\ c.cov <= 30 /\ low < CapOf(c))

\* C13, reached: a render with cov1 = 0.12, where Scenario 1 shows pf1 = 0 and
\* Scenario 2 has a draw below capacity and one in the upper half of its support
C13_Witness ==
    /\ pc = "done" /\ calls[3].cov = 12
    /\ G.l1 >= CapOf(calls[3]) /\ G.pf1.num = 0
    /\ 0 < G.pf2.num /\ G.pf2.num < G.pf2.den
    /\ \E i \in DOMAIN G.s2 : G.s2[i] >= 1000 * calls[4].mean

====
